---- MODULE Spec2Model ----
(***************************************************************************)
(* Model of family-karaoke-api:                                            *)
(*   core/exceptions.py       custom_exception_handler, statement by       *)
(*                            statement, run by concurrent invocations     *)
(*   config/settings/base.py  MIDDLEWARE (request walk in list order) and  *)
(*                            Q_CLUSTER (broker hand-out, workers, timeout *)
(*                            and retry)                                   *)
(***************************************************************************)
EXTENDS Integers, Sequences, FiniteSets, TLC

VARIABLES
    \* custom_exception_handler, one frame per invocation
    pc, exc, context, baseline, response, error_message, result,
    \* requests walking the MIDDLEWARE stack
    mw_pos, mw_seen, mw_answered,
    \* the django-q cluster configured by Q_CLUSTER
    clock, ormq, lock, task_queue, worker

handlerVars == <<pc, exc, context, baseline, response, error_message, result>>
mwVars == <<mw_pos, mw_seen, mw_answered>>
qVars == <<clock, ormq, lock, task_queue, worker>>
vars == <<handlerVars, mwVars, qVars>>

-----------------------------------------------------------------------------
(* Python values, tagged by type.                                          *)

None == [t |-> "None"]
Unbound == [t |-> "unbound"]
PyStr(s) == [t |-> "str", v |-> s]
PyInt(n) == [t |-> "int", v |-> n]
PyList(q) == [t |-> "list", v |-> q]
PyDict(f) == [t |-> "dict", v |-> f]
AttributeError == [t |-> "exception", v |-> "AttributeError"]

\* repr() of the values that occur inside lists here
Repr(x) ==
    CASE x.t = "str" -> "'" \o x.v \o "'"
      [] x.t = "int" -> ToString(x.v)
      [] OTHER -> "None"

RECURSIVE JoinRepr(_)
JoinRepr(q) ==
    IF q = <<>> THEN ""
    ELSE IF Len(q) = 1 THEN Repr(Head(q))
    ELSE Repr(Head(q)) \o ", " \o JoinRepr(Tail(q))

\* str(x), the built-in: a string is itself, a number is its decimal
\* numeral, None is "None", a list is the bracketed reprs of its items
str(x) ==
    CASE x.t = "str" -> x.v
      [] x.t = "int" -> ToString(x.v)
      [] x.t = "list" -> "[" \o JoinRepr(x.v) \o "]"
      [] OTHER -> "None"

\* str(exc): an exception's string form is the string form of its argument
str_exc(e) == str(e.args)

\* isinstance(x, str)
isinstance_str(x) == x.t = "str"

\* whether x.get resolves: only a mapping has the attribute
has_get(x) == x.t = "dict"

\* d.get(key) called without the default: a missing key gives None
dict_get_no_default(d, key, default) ==
    IF key \in DOMAIN d.v THEN d.v[key] ELSE None

\* d.get(key, default) on a mapping
dict_get(d, key, default) ==
    IF key \in DOMAIN d.v THEN d.v[key] ELSE default

-----------------------------------------------------------------------------
(* Inputs: faults, and what rest_framework's exception_handler may return  *)
(* for them (None, or a Response with status_code, headers and data).      *)

NumInvocations == 2
Procs == 1..NumInvocations

Faults ==
    { [cls |-> "NotAuthenticated",
       args |-> PyStr("Authentication credentials were not provided.")],
      [cls |-> "Throttled", args |-> PyInt(429)] }

Response(data, status, headers) ==
    [data |-> data, status_code |-> status, headers |-> headers]

NoHeaders == [h \in {} |-> ""]

Baselines ==
    { None,
      Response(PyDict([detail |-> PyStr("This field is required."),
                       field |-> PyStr("name")]), 400, NoHeaders),
      Response(PyDict([detail |-> PyStr("Not found.")]), 404, NoHeaders),
      Response(PyDict([detail |-> PyInt(429)]), 429,
               [RetryAfter |-> "60"]),
      Response(PyDict([name |-> PyList(<<PyStr("required")>>)]),
               400, NoHeaders),
      Response(PyStr("Authentication credentials were not provided."), 401,
               [WWWAuthenticate |-> "Bearer"]),
      Response(PyList(<<PyStr("invalid"), PyInt(3)>>), 400, NoHeaders) }

-----------------------------------------------------------------------------
(* custom_exception_handler(exc, context), core/exceptions.py 5-15         *)

InitHandler ==
    /\ exc = [p \in Procs |-> Unbound]
    /\ context = [p \in Procs |-> Unbound]
    /\ pc = [p \in Procs |-> "idle"]
    /\ baseline = [p \in Procs |-> Unbound]
    /\ response = [p \in Procs |-> Unbound]
    /\ error_message = [p \in Procs |-> Unbound]
    /\ result = [p \in Procs |-> Unbound]

\* line 5: the framework calls the handler with a raised fault and the
\* context of the request that raised it
Line5(p) ==
    /\ pc[p] = "idle"
    /\ \E e \in Faults : exc' = [exc EXCEPT ![p] = e]
    /\ context' = [context EXCEPT ![p] = [request |-> p]]
    /\ pc' = [pc EXCEPT ![p] = "line6"]
    /\ UNCHANGED <<baseline, response, error_message, result>>
    /\ UNCHANGED <<mwVars, qVars>>

\* line 6: response = exception_handler(exc, context)
Line6(p) ==
    /\ pc[p] = "line6"
    /\ \E r \in Baselines :
        /\ baseline' = [baseline EXCEPT ![p] = r]
        /\ response' = [response EXCEPT ![p] = r]
    /\ pc' = [pc EXCEPT ![p] = "line8"]
    /\ UNCHANGED <<exc, context, error_message, result>>
    /\ UNCHANGED <<mwVars, qVars>>

\* the None test left out: the body runs for every response
Line8_unguarded(p) ==
    /\ pc[p] = "line8"
    /\ pc' = [pc EXCEPT ![p] = "line9"]
    /\ UNCHANGED <<exc, context, baseline, response, error_message, result>>
    /\ UNCHANGED <<mwVars, qVars>>

\* line 8: if response is not None
Line8(p) ==
    /\ pc[p] = "line8"
    /\ pc' = [pc EXCEPT ![p] = IF response[p] # None THEN "line9" ELSE "line15"]
    /\ UNCHANGED <<exc, context, baseline, response, error_message, result>>
    /\ UNCHANGED <<mwVars, qVars>>

\* error_message = str(exc), the body's own detail ignored
Line9_fault_only(p) ==
    /\ pc[p] = "line9"
    /\ IF response[p] # None /\ has_get(response[p].data)
       THEN /\ error_message' = [error_message EXCEPT ![p] = PyStr(str_exc(exc[p]))]
            /\ pc' = [pc EXCEPT ![p] = "line10"]
            /\ UNCHANGED result
       ELSE /\ pc' = [pc EXCEPT ![p] = "raised"]
            /\ result' = [result EXCEPT ![p] = AttributeError]
            /\ UNCHANGED error_message
    /\ UNCHANGED <<exc, context, baseline, response>>
    /\ UNCHANGED <<mwVars, qVars>>

\* error_message kept in a module-level global that every invocation writes
Line9_global(p) ==
    /\ pc[p] = "line9"
    /\ IF response[p] # None /\ has_get(response[p].data)
       THEN /\ error_message' = [q \in Procs |->
                    dict_get(response[p].data, "detail", PyStr(str_exc(exc[p])))]
            /\ pc' = [pc EXCEPT ![p] = "line10"]
            /\ UNCHANGED result
       ELSE /\ pc' = [pc EXCEPT ![p] = "raised"]
            /\ result' = [result EXCEPT ![p] = AttributeError]
            /\ UNCHANGED error_message
    /\ UNCHANGED <<exc, context, baseline, response>>
    /\ UNCHANGED <<mwVars, qVars>>

\* line 9: error_message = response.data.get("detail", str(exc))
\* the attribute lookup comes first and raises on a value without .get
Line9(p) ==
    /\ pc[p] = "line9"
    /\ IF response[p] # None /\ has_get(response[p].data)
       THEN /\ error_message' = [error_message EXCEPT ![p] =
                    dict_get(response[p].data, "detail", PyStr(str_exc(exc[p])))]
            /\ pc' = [pc EXCEPT ![p] = "line10"]
            /\ UNCHANGED result
       ELSE /\ pc' = [pc EXCEPT ![p] = "raised"]
            /\ result' = [result EXCEPT ![p] = AttributeError]
            /\ UNCHANGED error_message
    /\ UNCHANGED <<exc, context, baseline, response>>
    /\ UNCHANGED <<mwVars, qVars>>

\* the isinstance test inverted: the structured body is dropped
Line10_detail_dropped(p) ==
    /\ pc[p] = "line10"
    /\ response' = [response EXCEPT ![p].data =
            PyDict([error |-> PyStr(str(error_message[p])),
                    detail |-> IF isinstance_str(response[p].data)
                               THEN response[p].data ELSE None])]
    /\ pc' = [pc EXCEPT ![p] = "line15"]
    /\ UNCHANGED <<exc, context, baseline, error_message, result>>
    /\ UNCHANGED <<mwVars, qVars>>

\* response = Response({...}): a fresh response, status 200 and no headers
Line10_new_response(p) ==
    /\ pc[p] = "line10"
    /\ response' = [response EXCEPT ![p] =
            Response(PyDict([error |-> PyStr(str(error_message[p])),
                             detail |-> IF ~isinstance_str(response[p].data)
                                        THEN response[p].data ELSE None]),
                     200, NoHeaders)]
    /\ pc' = [pc EXCEPT ![p] = "line15"]
    /\ UNCHANGED <<exc, context, baseline, error_message, result>>
    /\ UNCHANGED <<mwVars, qVars>>

\* lines 10-13: response.data = {"error": ..., "detail": ...}; the dict
\* display is evaluated before the assignment, so it reads the old data
Line10(p) ==
    /\ pc[p] = "line10"
    /\ response' = [response EXCEPT ![p].data =
            PyDict([error |-> PyStr(str(error_message[p])),
                    detail |-> IF ~isinstance_str(response[p].data)
                               THEN response[p].data ELSE None])]
    /\ pc' = [pc EXCEPT ![p] = "line15"]
    /\ UNCHANGED <<exc, context, baseline, error_message, result>>
    /\ UNCHANGED <<mwVars, qVars>>

\* line 15: return response
Line15(p) ==
    /\ pc[p] = "line15"
    /\ result' = [result EXCEPT ![p] = response[p]]
    /\ pc' = [pc EXCEPT ![p] = "returned"]
    /\ UNCHANGED <<exc, context, baseline, response, error_message>>
    /\ UNCHANGED <<mwVars, qVars>>

\* the function as a whole, run alone: how it ends and what it returns
custom_exception_handler(e, r) ==
    IF r = None THEN <<"returned", None>>
    ELSE IF ~has_get(r.data) THEN <<"raised", AttributeError>>
    ELSE LET msg == dict_get(r.data, "detail", PyStr(str_exc(e)))
         IN  <<"returned",
               [r EXCEPT !.data =
                    PyDict([error |-> PyStr(str(msg)),
                            detail |-> IF ~isinstance_str(r.data)
                                       THEN r.data ELSE None])]>>

NextHandler ==
    \E p \in Procs : Line5(p) \/ Line6(p) \/ Line8(p) \/ Line9(p) \/ Line10(p) \/ Line15(p)

-----------------------------------------------------------------------------
(* MIDDLEWARE, config/settings/base.py 41-51: a request is passed to the   *)
(* middleware in list order; each one either passes it on or answers it.   *)

\* CorsMiddleware listed after CommonMiddleware
MIDDLEWARE_cors_late ==
    << "django.middleware.security.SecurityMiddleware",
       "whitenoise.middleware.WhiteNoiseMiddleware",
       "django.middleware.common.CommonMiddleware",
       "corsheaders.middleware.CorsMiddleware",
       "django.contrib.sessions.middleware.SessionMiddleware",
       "django.middleware.csrf.CsrfViewMiddleware",
       "django.contrib.auth.middleware.AuthenticationMiddleware",
       "django.contrib.messages.middleware.MessageMiddleware",
       "django.middleware.clickjacking.XFrameOptionsMiddleware" >>

MIDDLEWARE ==
    << "django.middleware.security.SecurityMiddleware",
       "whitenoise.middleware.WhiteNoiseMiddleware",
       "corsheaders.middleware.CorsMiddleware",
       "django.middleware.common.CommonMiddleware",
       "django.contrib.sessions.middleware.SessionMiddleware",
       "django.middleware.csrf.CsrfViewMiddleware",
       "django.contrib.auth.middleware.AuthenticationMiddleware",
       "django.contrib.messages.middleware.MessageMiddleware",
       "django.middleware.clickjacking.XFrameOptionsMiddleware" >>

NumRequests == 2
Requests == 1..NumRequests

InitMiddleware ==
    /\ mw_pos = [r \in Requests |-> 1]
    /\ mw_seen = [r \in Requests |-> <<>>]
    /\ mw_answered = [r \in Requests |-> "pending"]

\* the middleware at mw_pos[r] handles the request and calls the next one
MiddlewarePass(r) ==
    /\ mw_answered[r] = "pending"
    /\ mw_pos[r] <= Len(MIDDLEWARE)
    /\ mw_seen' = [mw_seen EXCEPT ![r] = Append(@, MIDDLEWARE[mw_pos[r]])]
    /\ mw_pos' = [mw_pos EXCEPT ![r] = @ + 1]
    /\ UNCHANGED mw_answered
    /\ UNCHANGED <<handlerVars, qVars>>

\* the middleware at mw_pos[r] handles the request and answers it itself
MiddlewareAnswer(r) ==
    /\ mw_answered[r] = "pending"
    /\ mw_pos[r] <= Len(MIDDLEWARE)
    /\ mw_seen' = [mw_seen EXCEPT ![r] = Append(@, MIDDLEWARE[mw_pos[r]])]
    /\ mw_answered' = [mw_answered EXCEPT ![r] = MIDDLEWARE[mw_pos[r]]]
    /\ UNCHANGED mw_pos
    /\ UNCHANGED <<handlerVars, qVars>>

\* the whole stack passed the request on: the view answers
ViewAnswer(r) ==
    /\ mw_answered[r] = "pending"
    /\ mw_pos[r] > Len(MIDDLEWARE)
    /\ mw_answered' = [mw_answered EXCEPT ![r] = "view"]
    /\ UNCHANGED <<mw_pos, mw_seen>>
    /\ UNCHANGED <<handlerVars, qVars>>

NextMiddleware ==
    \E r \in Requests : MiddlewarePass(r) \/ MiddlewareAnswer(r) \/ ViewAnswer(r)

-----------------------------------------------------------------------------
(* Q_CLUSTER, config/settings/base.py 126-134: the ORM broker hands out up *)
(* to `bulk` stored tasks whose lock is older than `retry` seconds and     *)
(* stamps their lock; the cluster queues them (at most `queue_limit`);     *)
(* `workers` workers run them one at a time, an attempt is killed after    *)
(* `timeout` seconds, and a finished attempt deletes the stored task.      *)

Q_CLUSTER ==
    [ name |-> "family-karaoke",
      workers |-> 2,
      timeout |-> 90,
      retry |-> 120,
      queue_limit |-> 50,
      bulk |-> 10,
      orm |-> "default" ]

NumTasks == 3
MaxTicks == 6
Tasks == 1..NumTasks
Workers == 1..Q_CLUSTER.workers
\* the clock advances in steps of a third of the timeout
Tick == Q_CLUSTER.timeout \div 3

Idle == [task |-> 0, start |-> 0]
Running(w, t) == worker[w].task = t

InitCluster ==
    /\ clock = 0
    /\ ormq = [t \in Tasks |-> "absent"]
    /\ lock = [t \in Tasks |-> 0]
    /\ task_queue = <<>>
    /\ worker = [w \in Workers |-> Idle]

\* async_task: the task is stored with its lock already `retry` seconds old
Enqueue(t) ==
    /\ ormq[t] = "absent"
    /\ ormq' = [ormq EXCEPT ![t] = "stored"]
    /\ lock' = [lock EXCEPT ![t] = clock - Q_CLUSTER.retry]
    /\ UNCHANGED <<clock, task_queue, worker>>
    /\ UNCHANGED <<handlerVars, mwVars>>

\* the stored tasks the broker presents: lock < now - retry
Presentable == {t \in Tasks : ormq[t] = "stored" /\ lock[t] < clock - Q_CLUSTER.retry}

Min(S) == CHOOSE x \in S : \A y \in S : x <= y

RECURSIVE Sorted(_)
Sorted(S) == IF S = {} THEN <<>> ELSE <<Min(S)>> \o Sorted(S \ {Min(S)})

Take(q, n) == SubSeq(q, 1, IF Len(q) < n THEN Len(q) ELSE n)

SeqRange(q) == {q[i] : i \in 1..Len(q)}

\* broker.dequeue and the pusher: the first `bulk` presentable tasks get
\* lock = now and are put on the cluster's task queue
Dequeue ==
    LET batch == Take(Sorted(Presentable), Q_CLUSTER.bulk) IN
    /\ batch # <<>>
    /\ Len(task_queue) + Len(batch) <= Q_CLUSTER.queue_limit
    /\ lock' = [t \in Tasks |-> IF t \in SeqRange(batch) THEN clock ELSE lock[t]]
    /\ task_queue' = task_queue \o batch
    /\ UNCHANGED <<clock, ormq, worker>>
    /\ UNCHANGED <<handlerVars, mwVars>>

\* an idle worker takes the next queued task and starts its timer
WorkerStart(w) ==
    /\ worker[w] = Idle
    /\ task_queue # <<>>
    /\ worker' = [worker EXCEPT ![w] = [task |-> Head(task_queue), start |-> clock]]
    /\ task_queue' = Tail(task_queue)
    /\ UNCHANGED <<clock, ormq, lock>>
    /\ UNCHANGED <<handlerVars, mwVars>>

\* the attempt finishes: the result is saved and the stored task deleted
WorkerFinish(w) ==
    /\ worker[w] # Idle
    /\ ormq' = [ormq EXCEPT ![worker[w].task] = "deleted"]
    /\ worker' = [worker EXCEPT ![w] = Idle]
    /\ UNCHANGED <<clock, lock, task_queue>>
    /\ UNCHANGED <<handlerVars, mwVars>>

\* no timeout in force (django-q's default when the key is left out)
TimedOut_no_timeout(w) == FALSE

\* the attempt has run for `timeout` seconds
TimedOut(w) == worker[w] # Idle /\ clock - worker[w].start >= Q_CLUSTER.timeout

\* the guard kills a timed-out worker; the stored task stays, unacknowledged
WorkerKill(w) ==
    /\ TimedOut(w)
    /\ worker' = [worker EXCEPT ![w] = Idle]
    /\ UNCHANGED <<clock, ormq, lock, task_queue>>
    /\ UNCHANGED <<handlerVars, mwVars>>

\* time passes, once everything that happens at once has happened: the
\* pusher polls the broker all the time, a worker blocks on the task queue,
\* and a timed-out attempt is killed before it can run on
TickClock ==
    /\ clock < MaxTicks * Tick
    /\ Presentable = {} \/ Len(task_queue) >= Q_CLUSTER.queue_limit
    /\ \A w \in Workers : worker[w] = Idle => task_queue = <<>>
    /\ \A w \in Workers : ~TimedOut(w)
    /\ clock' = clock + Tick
    /\ UNCHANGED <<ormq, lock, task_queue, worker>>
    /\ UNCHANGED <<handlerVars, mwVars>>

NextCluster ==
    \/ \E t \in Tasks : Enqueue(t)
    \/ Dequeue
    \/ \E w \in Workers : WorkerStart(w) \/ WorkerFinish(w) \/ WorkerKill(w)
    \/ TickClock

-----------------------------------------------------------------------------
Init == InitHandler /\ InitMiddleware /\ InitCluster

Next == NextHandler
NextMW == NextMiddleware
NextQ == NextCluster

\* concurrent invocations of custom_exception_handler
Spec == Init /\ [][Next]_vars
\* requests through the middleware stack
SpecMW == Init /\ [][NextMW]_vars
\* the task cluster
SpecQ == Init /\ [][NextQ]_vars

-----------------------------------------------------------------------------
(* Properties of custom_exception_handler, checked under Spec.             *)

Finished(p) == pc[p] \in {"returned", "raised"}
Formatted(p) == baseline[p] # Unbound /\ baseline[p] # None
HasDetail(d) == d.t = "dict" /\ "detail" \in DOMAIN d.v

\* C1: when the baseline body is a plain string S, the handler returns, with
\* the body {"error": S, "detail": None} and the baseline status code.
C1_StringBodyEnvelope ==
    \A p \in Procs :
        (Finished(p) /\ Formatted(p) /\ isinstance_str(baseline[p].data))
        => /\ pc[p] = "returned"
           /\ result[p].data = PyDict([error |-> baseline[p].data, detail |-> None])
           /\ result[p].status_code = baseline[p].status_code

\* C2: the handler never raises, whatever the baseline; a list body comes
\* back as {"error": str(exc), "detail": the list}.
C2_NeverRaises ==
    \A p \in Procs :
        /\ pc[p] # "raised"
        /\ (pc[p] = "returned" /\ Formatted(p) /\ baseline[p].data.t = "list")
           => result[p].data = PyDict([error |-> PyStr(str_exc(exc[p])),
                                       detail |-> baseline[p].data])

\* C3: when exception_handler returns None the handler returns None: it
\* builds no response, binds no message and does not raise.
C3_NoneStaysNone ==
    \A p \in Procs :
        baseline[p] = None
        => /\ response[p] = None
           /\ error_message[p] = Unbound
           /\ pc[p] # "raised"
           /\ pc[p] = "returned" => result[p] = None

C3_Witness == \E p \in Procs : pc[p] = "returned" /\ baseline[p] = None

\* C4: a mapping body B with a detail key of value M comes back as
\* {"error": str(M), "detail": B}, B being the whole original mapping.
C4_DetailKeyEnvelope ==
    \A p \in Procs :
        (Finished(p) /\ Formatted(p) /\ HasDetail(baseline[p].data))
        => /\ pc[p] = "returned"
           /\ result[p].data =
                PyDict([error |-> PyStr(str(baseline[p].data.v.detail)),
                        detail |-> baseline[p].data])
           /\ HasDetail(result[p].data.v.detail)

C4_Witness ==
    \E p, q \in Procs :
        /\ pc[p] = "returned" /\ Formatted(p) /\ HasDetail(baseline[p].data)
        /\ DOMAIN baseline[p].data.v # {"detail"}
        /\ pc[q] = "returned" /\ Formatted(q) /\ HasDetail(baseline[q].data)
        /\ baseline[q].data.v.detail.t = "int"
        /\ result[q].data.v.error = PyStr("429")

\* C5: a mapping body B without a detail key comes back as
\* {"error": str(exc), "detail": B}.
C5_NoDetailKeyEnvelope ==
    \A p \in Procs :
        (Finished(p) /\ Formatted(p) /\ baseline[p].data.t = "dict"
            /\ ~HasDetail(baseline[p].data))
        => /\ pc[p] = "returned"
           /\ result[p].data = PyDict([error |-> PyStr(str_exc(exc[p])),
                                       detail |-> baseline[p].data])

C5_Witness ==
    \E p \in Procs :
        /\ pc[p] = "returned" /\ Formatted(p)
        /\ baseline[p].data.t = "dict" /\ ~HasDetail(baseline[p].data)
        /\ exc[p].args.t = "int"

\* C6: a returned response has a body with exactly the keys error and
\* detail, error a string, detail None or the baseline body, and None only
\* if the baseline body was a plain string.
C6_TwoFieldEnvelope ==
    \A p \in Procs :
        (pc[p] = "returned" /\ result[p] # None)
        => /\ result[p].data.t = "dict"
           /\ DOMAIN result[p].data.v = {"error", "detail"}
           /\ result[p].data.v.error.t = "str"
           /\ result[p].data.v.detail \in {None, baseline[p].data}
           /\ result[p].data.v.detail = None => isinstance_str(baseline[p].data)

C6_Witness ==
    \E p \in Procs :
        /\ pc[p] = "returned" /\ result[p] # None
        /\ result[p].data.v.detail = baseline[p].data

\* C7: from the call of exception_handler on, the response's status code
\* and headers are the baseline's; so are those of the returned response.
C7_StatusAndHeadersKept ==
    \A p \in Procs :
        Formatted(p)
        => /\ response[p].status_code = baseline[p].status_code
           /\ response[p].headers = baseline[p].headers
           /\ pc[p] = "returned"
              => /\ result[p].status_code = baseline[p].status_code
                 /\ result[p].headers = baseline[p].headers

C7_Witness ==
    \E p \in Procs :
        /\ pc[p] = "returned" /\ Formatted(p)
        /\ result[p].data # baseline[p].data
        /\ result[p].headers # NoHeaders

\* C8: under every interleaving, a finished invocation ended the way, and
\* returned what, the function gives for its own fault and baseline alone.
C8_InvocationsIndependent ==
    \A p \in Procs :
        Finished(p)
        => <<pc[p], result[p]>> = custom_exception_handler(exc[p], baseline[p])

C8_Witness ==
    \E p, q \in Procs :
        /\ p # q
        /\ pc[p] = "returned" /\ Formatted(p)
        /\ pc[q] = "line10"
        /\ exc[p] # exc[q]
        /\ error_message[p] # error_message[q]

-----------------------------------------------------------------------------
(* Property of MIDDLEWARE, checked under SpecMW.                           *)

Cors == "corsheaders.middleware.CorsMiddleware"
Common == "django.middleware.common.CommonMiddleware"
Security == "django.middleware.security.SecurityMiddleware"

\* C9: a request that CommonMiddleware handles (and may answer) has been
\* handled by CorsMiddleware before, and SecurityMiddleware is the first
\* to handle every request.
C9_CorsBeforeCommon ==
    \A r \in Requests :
        /\ \A i \in 1..Len(mw_seen[r]) :
                mw_seen[r][i] = Common
                => \E j \in 1..(i - 1) : mw_seen[r][j] = Cors
        /\ mw_seen[r] # <<>> => mw_seen[r][1] = Security
        /\ mw_answered[r] = "view" => mw_seen[r] = MIDDLEWARE

C9_Witness == \E r \in Requests : mw_answered[r] = Common

-----------------------------------------------------------------------------
(* Properties of Q_CLUSTER, checked under SpecQ.                           *)

\* worker w is executing an attempt of task t that has not run out its time
Executing(w, t) == Running(w, t) /\ ~TimedOut(w)

\* the step hands task t out again
HandedOutAgain(t) == ormq[t] = "stored" /\ lock'[t] # lock[t]

====
